---- MODULE Spec2Model ----
(***************************************************************************)
(* Portfolio API (main.py, schemas.py).                                    *)
(*                                                                         *)
(* The process imports the database module and the schemas once at start-  *)
(* up, then serves GET /, GET /api/hello, GET /api/projects,               *)
(* POST /api/contact and GET /test.  The state is the outcome of the       *)
(* start-up imports, the process environment, the contactmessage           *)
(* collection of the document store and the last response sent.            *)
(*                                                                         *)
(* Encoding.  A string whose content is never inspected is modelled by its *)
(* length; an optional value is the empty tuple when missing and a         *)
(* one-element tuple otherwise.  A text that is sliced is a sequence of    *)
(* character codes.  A status text is a pair <<literal, tail>>: the        *)
(* literal part of the f-string and the interpolated part.  The status     *)
(* emoji of the literals are left out.                                     *)
(***************************************************************************)
EXTENDS Integers, Sequences, FiniteSets, TLC

VARIABLES dbImport, schemasOK, handle, environ, store, acks, last

vars == <<dbImport, schemasOK, handle, environ, store, acks, last>>

(***************************************************************************)
(* Bounds of the model.                                                    *)
(***************************************************************************)
MaxDocs == 2
MaxTime == 2
MaxCollections == 12
MaxErrLen == 52

(***************************************************************************)
(* Program constants.                                                      *)
(***************************************************************************)
NameMinLen == 1
NameMaxLen == 120
SubjectMaxLen == 200
MessageMinLen == 5
MessageMaxLen == 5000
CollectionsShown == 10
ErrorShown == 50

Min(a, b) == IF a <= b THEN a ELSE b

\* Python s[:n] for n >= 0: the first min(n, len(s)) elements of s.
Slice(s, n) == SubSeq(s, 1, Min(n, Len(s)))

\* A text of n characters.
Text(n) == [i \in 1..n |-> i]

ErrMsgs == {Text(3), Text(MaxErrLen)}

Times == 1..MaxTime

Missing == <<>>
Given(v) == <<v>>
IsGiven(o) == o /= Missing
Val(o) == o[1]

(***************************************************************************)
(* Start-up: the optional import of main.py.  Any exception in either      *)
(* import clears all three names.                                          *)
(***************************************************************************)
ImportOK == dbImport.kind = "ok" /\ schemasOK

NULL == "None"

create_document == IF ImportOK THEN "database.create_document" ELSE NULL

db == IF ImportOK THEN handle ELSE NULL

ContactMessage == IF ImportOK THEN "schemas.ContactMessage" ELSE NULL

(***************************************************************************)
(* schemas.ContactMessage: the field errors of a payload.                  *)
(***************************************************************************)
NameError(p) ==
    \/ ~IsGiven(p.name)
    \/ Val(p.name) < NameMinLen
    \/ Val(p.name) > NameMaxLen

\* The email field declared str instead of EmailStr.
EmailErrorAnyString(p) == p.email = "absent"

EmailError(p) == p.email /= "valid"

SubjectError(p) == IsGiven(p.subject) /\ Val(p.subject) > SubjectMaxLen

\* The lower limit of message one too high.
MessageErrorOffByOne(p) ==
    \/ ~IsGiven(p.message)
    \/ Val(p.message) <= MessageMinLen
    \/ Val(p.message) > MessageMaxLen

MessageError(p) ==
    \/ ~IsGiven(p.message)
    \/ Val(p.message) < MessageMinLen
    \/ Val(p.message) > MessageMaxLen

TagsError(p) == p.tags = "invalid"

ReceivedAtError(p) == p.received_at.kind = "invalid"

ValidationErrors(p) ==
    {f \in {"name", "email", "subject", "message", "tags", "received_at"} :
        \/ f = "name" /\ NameError(p)
        \/ f = "email" /\ EmailError(p)
        \/ f = "subject" /\ SubjectError(p)
        \/ f = "message" /\ MessageError(p)
        \/ f = "tags" /\ TagsError(p)
        \/ f = "received_at" /\ ReceivedAtError(p)}

\* The model instance built from a payload that has no field error.
Validated(p) ==
    [name |-> p.name, email |-> p.email, subject |-> p.subject,
     message |-> p.message, tags |-> p.tags, received_at |-> p.received_at]

Datetime(t) == [kind |-> "datetime", t |-> t]
NoDatetime == [kind |-> "absent", t |-> 0]
BadDatetime == [kind |-> "invalid", t |-> 0]

(***************************************************************************)
(* database.create_document(collection, data) on the collection coll.      *)
(* ins is what the store does with the insertion: accept it or raise.      *)
(* Without a client handle the call raises.                                *)
(***************************************************************************)
CreateDocument(coll, data, ins) ==
    IF handle = NULL \/ ins.kind = "raise"
    THEN [raised |-> TRUE, msg |-> ins.msg, id |-> 0, coll |-> coll]
    ELSE [raised |-> FALSE, msg |-> <<>>, id |-> Len(coll) + 1,
          coll |-> Append(coll, data)]

InsertOk == [kind |-> "ok", msg |-> <<>>]
InsertRaises == {[kind |-> "raise", msg |-> m] : m \in ErrMsgs}
InsertOutcomes == IF handle = NULL THEN InsertRaises
                  ELSE {InsertOk} \cup InsertRaises

(***************************************************************************)
(* Responses.                                                              *)
(***************************************************************************)
HTTPException(code, detail, errors, coll) ==
    [status |-> code, detail |-> detail, errors |-> errors, id |-> 0,
     coll |-> coll]

\* The timestamp set only when the payload brought none.
submit_contact_keeps_client_time(payload, now, ins, coll) ==
    IF ContactMessage = NULL \/ create_document = NULL
    THEN HTTPException(500, <<"Database not configured", <<>>>>, {}, coll)
    ELSE IF ValidationErrors(payload) /= {}
    THEN HTTPException(422, <<"", <<>>>>, ValidationErrors(payload), coll)
    ELSE LET data == IF payload.received_at.kind = "absent"
                     THEN [Validated(payload) EXCEPT
                              !.received_at = Datetime(now)]
                     ELSE Validated(payload)
             res == CreateDocument(coll, data, ins)
         IN  IF res.raised
             THEN HTTPException(500, <<"", res.msg>>, {}, coll)
             ELSE [status |-> 200, detail |-> <<"ok", <<>>>>, errors |-> {},
                   id |-> res.id, coll |-> res.coll]

\* A message already stored acknowledged without a second insertion.
submit_contact_dedup(payload, now, ins, coll) ==
    IF ContactMessage = NULL \/ create_document = NULL
    THEN HTTPException(500, <<"Database not configured", <<>>>>, {}, coll)
    ELSE IF ValidationErrors(payload) /= {}
    THEN HTTPException(422, <<"", <<>>>>, ValidationErrors(payload), coll)
    ELSE LET data == [Validated(payload) EXCEPT !.received_at = Datetime(now)]
             res == CreateDocument(coll, data, ins)
         IN  IF \E i \in DOMAIN coll : coll[i] = data
             THEN [status |-> 200, detail |-> <<"ok", <<>>>>, errors |-> {},
                   id |-> CHOOSE i \in DOMAIN coll : coll[i] = data,
                   coll |-> coll]
             ELSE IF res.raised
             THEN HTTPException(500, <<"", res.msg>>, {}, coll)
             ELSE [status |-> 200, detail |-> <<"ok", <<>>>>, errors |-> {},
                   id |-> res.id, coll |-> res.coll]

\* The insertion error cut like the errors of the diagnostic report.
submit_contact_truncated_detail(payload, now, ins, coll) ==
    IF ContactMessage = NULL \/ create_document = NULL
    THEN HTTPException(500, <<"Database not configured", <<>>>>, {}, coll)
    ELSE IF ValidationErrors(payload) /= {}
    THEN HTTPException(422, <<"", <<>>>>, ValidationErrors(payload), coll)
    ELSE LET data == [Validated(payload) EXCEPT !.received_at = Datetime(now)]
             res == CreateDocument(coll, data, ins)
         IN  IF res.raised
             THEN HTTPException(500, <<"", Slice(res.msg, ErrorShown)>>, {},
                                coll)
             ELSE [status |-> 200, detail |-> <<"ok", <<>>>>, errors |-> {},
                   id |-> res.id, coll |-> res.coll]

\* POST /api/contact
submit_contact(payload, now, ins, coll) ==
    IF ContactMessage = NULL \/ create_document = NULL
    THEN HTTPException(500, <<"Database not configured", <<>>>>, {}, coll)
    ELSE IF ValidationErrors(payload) /= {}
    THEN HTTPException(422, <<"", <<>>>>, ValidationErrors(payload), coll)
    ELSE LET data == [Validated(payload) EXCEPT !.received_at = Datetime(now)]
             res == CreateDocument(coll, data, ins)
         IN  IF res.raised
             THEN HTTPException(500, <<"", res.msg>>, {}, coll)
             ELSE [status |-> 200, detail |-> <<"ok", <<>>>>, errors |-> {},
                   id |-> res.id, coll |-> res.coll]

\* The catalog with its first two records exchanged.
list_projects_reordered ==
    [projects |-> <<
        [id |-> "p2",
         title |-> "Creative Portfolio Site",
         description |-> "Smooth scroll sections, parallax hero, and animated cards.",
         tags |-> <<"React", "UX", "Animation">>,
         link |-> "https://example.com/portfolio",
         github |-> "https://github.com/example/portfolio",
         image |-> "https://images.unsplash.com/photo-1518779578993-ec3579fee39f?q=80&w=1200&auto=format&fit=crop"],
        [id |-> "p1",
         title |-> "Interactive Data Dashboard",
         description |-> "A responsive dashboard with real-time charts and dark mode.",
         tags |-> <<"React", "Tailwind", "Charts">>,
         link |-> "https://example.com/dashboard",
         github |-> "https://github.com/example/dashboard",
         image |-> "https://images.unsplash.com/photo-1556157382-97eda2d62296?q=80&w=1200&auto=format&fit=crop"],
        [id |-> "p3",
         title |-> "API Microservice Boilerplate",
         description |-> "Production-ready FastAPI service with auth and testing.",
         tags |-> <<"FastAPI", "Python", "DevOps">>,
         link |-> "https://example.com/api",
         github |-> "https://github.com/example/fastapi",
         image |-> "https://images.unsplash.com/photo-1518779578993-ec3579fee39f?q=80&w=1200&auto=format&fit=crop"]
    >>]

\* GET /api/projects
list_projects ==
    [projects |-> <<
        [id |-> "p1",
         title |-> "Interactive Data Dashboard",
         description |-> "A responsive dashboard with real-time charts and dark mode.",
         tags |-> <<"React", "Tailwind", "Charts">>,
         link |-> "https://example.com/dashboard",
         github |-> "https://github.com/example/dashboard",
         image |-> "https://images.unsplash.com/photo-1556157382-97eda2d62296?q=80&w=1200&auto=format&fit=crop"],
        [id |-> "p2",
         title |-> "Creative Portfolio Site",
         description |-> "Smooth scroll sections, parallax hero, and animated cards.",
         tags |-> <<"React", "UX", "Animation">>,
         link |-> "https://example.com/portfolio",
         github |-> "https://github.com/example/portfolio",
         image |-> "https://images.unsplash.com/photo-1518779578993-ec3579fee39f?q=80&w=1200&auto=format&fit=crop"],
        [id |-> "p3",
         title |-> "API Microservice Boilerplate",
         description |-> "Production-ready FastAPI service with auth and testing.",
         tags |-> <<"FastAPI", "Python", "DevOps">>,
         link |-> "https://example.com/api",
         github |-> "https://github.com/example/fastapi",
         image |-> "https://images.unsplash.com/photo-1518779578993-ec3579fee39f?q=80&w=1200&auto=format&fit=crop"]
    >>]

\* GET /
read_root == [message |-> "Hello from FastAPI Backend!"]

\* GET /api/hello
hello == [message |-> "Hello from the backend API!"]

(***************************************************************************)
(* GET /test.  imp is the outcome of "from database import db", hdl the    *)
(* imported handle, probe the outcome of list_collection_names(), env the  *)
(* process environment.                                                    *)
(***************************************************************************)
InitialReport ==
    [backend |-> "Running",
     database |-> <<"Not Available", <<>>>>,
     database_url |-> "None",
     database_name |-> "None",
     connection_status |-> "Not Connected",
     collections |-> <<>>]

\* os.getenv(name) used as a condition: unset and empty are both false.
Truthy(v) == IsGiven(v) /\ Val(v) > 0

\* The collection names reported without the [:10].
ProbedUnsliced(r0, probe) ==
    IF probe.kind = "ok"
    THEN [r0 EXCEPT !.collections = probe.names,
                    !.database = <<"Connected & Working", <<>>>>]
    ELSE [r0 EXCEPT !.database =
              <<"Connected but Error: ", Slice(probe.msg, ErrorShown)>>]

Probed(r0, probe) ==
    IF probe.kind = "ok"
    THEN [r0 EXCEPT !.collections = Slice(probe.names, CollectionsShown),
                    !.database = <<"Connected & Working", <<>>>>]
    ELSE [r0 EXCEPT !.database =
              <<"Connected but Error: ", Slice(probe.msg, ErrorShown)>>]

\* The environment consulted only for the fields still None.
EnvCheckedIfUnset(r0, env) ==
    [r0 EXCEPT !.database_url =
                   IF r0.database_url /= "None" THEN r0.database_url
                   ELSE IF Truthy(env.DATABASE_URL) THEN "Set" ELSE "Not Set",
               !.database_name =
                   IF r0.database_name /= "None" THEN r0.database_name
                   ELSE IF Truthy(env.DATABASE_NAME) THEN "Set" ELSE "Not Set"]

EnvChecked(r0, env) ==
    [r0 EXCEPT !.database_url =
                   IF Truthy(env.DATABASE_URL) THEN "Set" ELSE "Not Set",
               !.database_name =
                   IF Truthy(env.DATABASE_NAME) THEN "Set" ELSE "Not Set"]

\* Only ImportError caught around the import: any other exception leaves
\* the handler and the framework answers 500.
test_database_import_error_only(imp, hdl, probe, env) ==
    LET r0 == InitialReport
        r1 == IF imp.kind = "ok"
              THEN IF hdl /= NULL
                   THEN Probed([r0 EXCEPT
                                  !.database = <<"Available", <<>>>>,
                                  !.database_url = "Configured",
                                  !.database_name = "db.name",
                                  !.connection_status = "Connected"], probe)
                   ELSE [r0 EXCEPT !.database =
                            <<"Available but not initialized", <<>>>>]
              ELSE [r0 EXCEPT !.database =
                       <<"Database module not found (run enable-database first)",
                         <<>>>>]
    IN  IF imp.kind = "Exception"
        THEN [status |-> 500, body |-> r0]
        ELSE [status |-> 200, body |-> EnvChecked(r1, env)]

test_database(imp, hdl, probe, env) ==
    LET r0 == InitialReport
        r1 == IF imp.kind = "ok"
              THEN IF hdl /= NULL
                   THEN Probed([r0 EXCEPT
                                  !.database = <<"Available", <<>>>>,
                                  !.database_url = "Configured",
                                  !.database_name = "db.name",
                                  !.connection_status = "Connected"], probe)
                   ELSE [r0 EXCEPT !.database =
                            <<"Available but not initialized", <<>>>>]
              ELSE IF imp.kind = "ImportError"
              THEN [r0 EXCEPT !.database =
                       <<"Database module not found (run enable-database first)",
                         <<>>>>]
              ELSE [r0 EXCEPT !.database =
                       <<"Error: ", Slice(imp.msg, ErrorShown)>>]
    IN  [status |-> 200, body |-> EnvChecked(r1, env)]

(***************************************************************************)
(* Inputs.                                                                 *)
(***************************************************************************)
ImportOutcomes ==
    {[kind |-> "ok", msg |-> <<>>], [kind |-> "ImportError", msg |-> <<>>]}
    \cup {[kind |-> "Exception", msg |-> m] : m \in ErrMsgs}

EnvValues == {Missing, Given(0), Given(1)}

Environments == [DATABASE_URL : EnvValues, DATABASE_NAME : EnvValues]

Received == {NoDatetime, BadDatetime} \cup {Datetime(t) : t \in Times}

\* A payload that passes validation.
ValidPayload ==
    [name |-> Given(NameMinLen), email |-> "valid", subject |-> Missing,
     message |-> Given(MessageMinLen), tags |-> "absent",
     received_at |-> NoDatetime]

\* Payloads of the running system: the valid one, with and without a
\* received_at of its own, and one payload per field in error.
Payloads ==
    {ValidPayload,
     [ValidPayload EXCEPT !.received_at = Datetime(1)],
     [ValidPayload EXCEPT !.name = Missing],
     [ValidPayload EXCEPT !.email = "invalid"],
     [ValidPayload EXCEPT !.subject = Given(SubjectMaxLen + 1)],
     [ValidPayload EXCEPT !.message = Given(MessageMinLen - 1)],
     [ValidPayload EXCEPT !.tags = "invalid"],
     [ValidPayload EXCEPT !.received_at = BadDatetime]}

\* Payloads around every length limit of the schema.
BoundaryPayloads ==
    [name : {Missing, Given(NameMinLen - 1), Given(NameMinLen),
             Given(NameMaxLen), Given(NameMaxLen + 1)},
     email : {"absent", "valid", "invalid"},
     subject : {Missing, Given(0), Given(SubjectMaxLen),
                Given(SubjectMaxLen + 1)},
     message : {Missing, Given(MessageMinLen - 1), Given(MessageMinLen),
                Given(MessageMaxLen), Given(MessageMaxLen + 1)},
     tags : {"absent", "list", "invalid"},
     received_at : Received]

Ascending(n) == [i \in 1..n |-> i]
Descending(n) == [i \in 1..n |-> n + 1 - i]

NoProbe == [kind |-> "none", names |-> <<>>, msg |-> <<>>]

ProbeOutcomes ==
    {[kind |-> "ok", names |-> Ascending(n), msg |-> <<>>] :
        n \in 0..MaxCollections}
    \cup {[kind |-> "ok", names |-> Descending(MaxCollections), msg |-> <<>>]}
    \cup {[kind |-> "raise", names |-> <<>>, msg |-> m] : m \in ErrMsgs}

(***************************************************************************)
(* The last response, with the inputs of the call that produced it.        *)
(***************************************************************************)
NoPayload ==
    [name |-> Missing, email |-> "absent", subject |-> Missing,
     message |-> Missing, tags |-> "absent", received_at |-> NoDatetime]

NoCall ==
    [op |-> "none", status |-> 0, detail |-> <<"", <<>>>>, errors |-> {},
     id |-> 0, payload |-> NoPayload, now |-> 0, ins |-> InsertOk,
     report |-> InitialReport, probe |-> NoProbe, projects |-> <<>>,
     message |-> ""]

Init ==
    /\ dbImport \in ImportOutcomes
    /\ schemasOK \in BOOLEAN
    /\ handle \in IF dbImport.kind = "ok" THEN {NULL, "live"} ELSE {NULL}
    /\ environ \in Environments
    /\ store = <<>>
    /\ acks = 0
    /\ last = NoCall

ReadRoot ==
    /\ last' = [NoCall EXCEPT !.op = "root", !.status = 200,
                              !.message = read_root.message]
    /\ UNCHANGED <<dbImport, schemasOK, handle, environ, store, acks>>

Hello ==
    /\ last' = [NoCall EXCEPT !.op = "hello", !.status = 200,
                              !.message = hello.message]
    /\ UNCHANGED <<dbImport, schemasOK, handle, environ, store, acks>>

ListProjects ==
    /\ last' = [NoCall EXCEPT !.op = "projects", !.status = 200,
                              !.projects = list_projects.projects]
    /\ UNCHANGED <<dbImport, schemasOK, handle, environ, store, acks>>

Contact(payload, now, ins) ==
    LET r == submit_contact(payload, now, ins, store)
    IN  /\ Len(store) < MaxDocs
        /\ acks < MaxDocs
        /\ store' = r.coll
        /\ acks' = IF r.status = 200 THEN acks + 1 ELSE acks
        /\ last' = [NoCall EXCEPT !.op = "contact", !.status = r.status,
                                  !.detail = r.detail, !.errors = r.errors,
                                  !.id = r.id, !.payload = payload,
                                  !.now = now, !.ins = ins]
        /\ UNCHANGED <<dbImport, schemasOK, handle, environ>>

SubmitContact ==
    \E payload \in Payloads, now \in Times, ins \in InsertOutcomes :
        Contact(payload, now, ins)

TestDatabase ==
    \E probe \in IF dbImport.kind = "ok" /\ handle /= NULL
                 THEN ProbeOutcomes ELSE {NoProbe} :
        LET r == test_database(dbImport, handle, probe, environ)
        IN  /\ last' = [NoCall EXCEPT !.op = "test", !.status = r.status,
                                      !.report = r.body, !.probe = probe]
            /\ UNCHANGED <<dbImport, schemasOK, handle, environ, store, acks>>

Next ==
    \/ ReadRoot
    \/ Hello
    \/ ListProjects
    \/ SubmitContact
    \/ TestDatabase

Spec == Init /\ [][Next]_vars

(***************************************************************************)
(* Validation alone: one submission, drawn from the payloads around the    *)
(* limits of the schema.                                                   *)
(***************************************************************************)
InitValidation ==
    /\ Init
    /\ environ = [DATABASE_URL |-> Given(1), DATABASE_NAME |-> Given(1)]

ValidateOnce ==
    /\ last.op = "none"
    /\ \E payload \in BoundaryPayloads, now \in Times, ins \in InsertOutcomes :
           Contact(payload, now, ins)

SpecValidation == InitValidation /\ [][ValidateOnce]_vars

(***************************************************************************)
(* Properties.                                                             *)
(***************************************************************************)
Configured == ContactMessage /= NULL /\ create_document /= NULL

\* The field limits of a contact message: name 1-120 characters, a valid
\* email, subject at most 200 characters if given, message 5-5000.
FieldLimits(p) ==
    /\ IsGiven(p.name) /\ Val(p.name) >= 1 /\ Val(p.name) <= 120
    /\ p.email = "valid"
    /\ IsGiven(p.subject) => Val(p.subject) <= 200
    /\ IsGiven(p.message) /\ Val(p.message) >= 5 /\ Val(p.message) <= 5000

\* Full validation: the field limits, a list of strings for tags if given,
\* a datetime for received_at if given.
FullyValid(p) ==
    /\ FieldLimits(p)
    /\ p.tags /= "invalid"
    /\ p.received_at.kind /= "invalid"

ContactCall == last.op = "contact"

\* C1 as stated: every stored document passes full validation, and a call
\* whose payload fails validation returns 422 and leaves the store
\* unchanged.
C1_Original ==
    [][/\ \A i \in DOMAIN store' : FullyValid(store'[i])
       /\ (last'.op = "contact" /\ ~FullyValid(last'.payload))
              => (last'.status = 422 /\ store' = store)]_vars

\* C1 amended: every stored document passes full validation; a call whose
\* payload fails validation leaves the store unchanged and returns 422 when
\* the storage function and the schema were imported at start-up, 500 when
\* they were not.
C1_Validated ==
    [][/\ \A i \in DOMAIN store' : FullyValid(store'[i])
       /\ (last'.op = "contact" /\ ~FullyValid(last'.payload))
              => /\ store' = store
                 /\ last'.status = IF Configured THEN 422 ELSE 500]_vars

C1_Witness ==
    /\ ContactCall
    /\ Configured
    /\ last.payload.email = "invalid"
    /\ last.status = 422
    /\ Len(store) = 1

\* C2: when the storage client is unavailable (db is None in main.py), every
\* POST /api/contact returns 500 and the store stays empty.
C2_Unavailable ==
    db = NULL => /\ store = <<>>
                 /\ ContactCall => last.status = 500

\* C3: the received_at of the document handed to the store by an accepted
\* call is the server time of that call, whatever the payload carried.
C3_ServerTime ==
    (ContactCall /\ last.status = 200)
        => store[Len(store)].received_at = Datetime(last.now)

C3_Witness ==
    /\ ContactCall
    /\ last.status = 200
    /\ last.payload.received_at.kind = "datetime"
    /\ last.payload.received_at.t /= last.now

\* C4: the store holds as many documents as calls were acknowledged: a step
\* that acknowledges a call appends exactly one document, any other step
\* leaves the store as it is, and an identical payload is stored again.
C4_OneWritePerAck ==
    [][/\ Len(store') = acks'
       /\ acks' = acks + 1 =>
              /\ Len(store') = Len(store) + 1
              /\ SubSeq(store', 1, Len(store)) = store
       /\ acks' = acks => store' = store]_vars

C4_Witness ==
    /\ acks = 2
    /\ Len(store) = 2
    /\ store[1] = store[2]

\* C5: GET /test answers 200 with the six fixed fields for every import
\* outcome, handle state and probe outcome.
C5_NeverFails ==
    last.op = "test" =>
        /\ last.status = 200
        /\ DOMAIN last.report =
               {"backend", "database", "database_url", "database_name",
                "connection_status", "collections"}

C5_Witness ==
    /\ last.op = "test"
    /\ dbImport.kind = "Exception"
    /\ Len(dbImport.msg) > 50

\* C6: with storage and schema imported and a valid payload, an insertion
\* that raises gives a 500 whose detail is the whole error message, never
\* the acknowledgement.
C6_InsertFailure ==
    (ContactCall /\ Configured /\ FullyValid(last.payload)
        /\ last.ins.kind = "raise")
        => /\ last.status = 500
           /\ last.detail = <<"", last.ins.msg>>
           /\ last.id = 0

C6_Witness ==
    /\ ContactCall
    /\ Configured
    /\ handle /= NULL
    /\ FullyValid(last.payload)
    /\ last.ins.kind = "raise"
    /\ Len(last.ins.msg) > 50

\* C7: the collections of the report are at most 10: the first min(10, n)
\* names of a successful probe in their order; after a failed probe none,
\* and the database field is the prefix followed by the first 50 characters
\* of the error message.
C7_Collections ==
    last.op = "test" =>
        LET names == last.probe.names
            msg == last.probe.msg
            shown == IF Len(names) < 10 THEN Len(names) ELSE 10
            kept == IF Len(msg) < 50 THEN Len(msg) ELSE 50
        IN  /\ Len(last.report.collections) <= 10
            /\ last.probe.kind = "ok" =>
                   last.report.collections = [i \in 1..shown |-> names[i]]
            /\ last.probe.kind = "raise" =>
                   /\ last.report.collections = <<>>
                   /\ last.report.database =
                          <<"Connected but Error: ",
                            [i \in 1..kept |-> msg[i]]>>

C7_Witness ==
    /\ last.op = "test"
    /\ last.probe.kind = "ok"
    /\ Len(last.probe.names) > 10
    /\ last.probe.names[1] > last.probe.names[2]
    /\ Len(last.report.collections) = 10

\* C8: with storage configured and tags and received_at valid, a call passes
\* validation (is not answered 422) exactly when the name has 1-120
\* characters, the email is valid, the subject is absent or has at most 200
\* characters and the message has 5-5000 characters.
C8_Limits ==
    (ContactCall /\ Configured /\ last.payload.tags /= "invalid"
        /\ last.payload.received_at.kind /= "invalid")
        => (last.status /= 422 <=> FieldLimits(last.payload))

C8_Witness ==
    /\ ContactCall
    /\ Configured
    /\ last.payload.message = Given(5)
    /\ last.payload.name = Given(120)
    /\ last.status = 200

\* C9 as stated: the database_url and database_name markers are "Set"
\* exactly when the variable is present in the environment.
C9_Original ==
    last.op = "test" =>
        /\ last.report.database_url = "Set" <=> IsGiven(environ.DATABASE_URL)
        /\ last.report.database_name = "Set"
               <=> IsGiven(environ.DATABASE_NAME)

\* C9 amended: each marker is "Set" exactly when its variable is present
\* with a non-empty value and "Not Set" otherwise, whatever the import
\* outcome, the handle and the probe.
C9_EnvMarkers ==
    last.op = "test" =>
        /\ last.report.database_url =
               IF IsGiven(environ.DATABASE_URL)
                  /\ Val(environ.DATABASE_URL) > 0
               THEN "Set" ELSE "Not Set"
        /\ last.report.database_name =
               IF IsGiven(environ.DATABASE_NAME)
                  /\ Val(environ.DATABASE_NAME) > 0
               THEN "Set" ELSE "Not Set"

C9_Witness ==
    /\ last.op = "test"
    /\ dbImport.kind = "ok"
    /\ handle /= NULL
    /\ environ.DATABASE_URL = Given(0)
    /\ environ.DATABASE_NAME = Missing
    /\ last.report.database_url = "Not Set"

\* C10: GET /api/projects answers 200 with the records p1, p2, p3 in this
\* order, each with a non-empty id, title and description, in every state,
\* and leaves the store as it is.
C10_Projects ==
    [][last'.op = "projects" =>
          /\ last'.status = 200
          /\ Len(last'.projects) = 3
          /\ [i \in 1..3 |-> last'.projects[i].id] = <<"p1", "p2", "p3">>
          /\ \A i \in 1..3 :
                 /\ last'.projects[i].title /= ""
                 /\ last'.projects[i].description /= ""
          /\ store' = store
          /\ acks' = acks]_vars

C10_Witness ==
    /\ last.op = "projects"
    /\ Len(store) = 2
    /\ Len(last.projects) = 3

====
